---- MODULE Spec2Model ----
(***************************************************************************)
(* ChanEngine (chan_core.py): inclusion merging of raw K-lines into        *)
(* standard K-lines, top/bottom fractal (FenXing) detection and stroke     *)
(* (Bi) construction, modelled loop iteration by loop iteration.           *)
(*                                                                         *)
(* Python lists are TLA+ sequences; Python's 0-based (and negative)        *)
(* indices are kept and translated by PyAt.  An object reference is        *)
(* modelled by the value of the object: every ChanKLine carries the raw    *)
(* index it was built from, which is unique inside one list, so equality   *)
(* of values coincides with identity of objects wherever the code relies   *)
(* on identity (list.index in get_std_index).  original_klines holds the   *)
(* raw indices of the raw K-lines it references.                           *)
(***************************************************************************)
EXTENDS Integers, Sequences, FiniteSets

VARIABLES raw_klines,        \* self.raw_klines
          standard_klines,   \* self.standard_klines
          fenxings,          \* self.fenxings
          bis,               \* self.bis
          result,            \* process_inclusion: local list `result`
          current_bi_start,  \* draw_bi: local `current_bi_start`
          i,                 \* loop index of the running method
          pc,                \* position of the caller / running method
          df                 \* fetch_csi300_data: local DataFrame `df`

vars == <<raw_klines, standard_klines, fenxings, bis, result,
          current_bi_start, i, pc, df>>

(***************************************************************************)
(* Bounds of the model.                                                    *)
(***************************************************************************)
MaxRaw   == 4   \* SpecStd: longest raw sequence
MaxPrice == 3   \* SpecStd: prices range over 1..MaxPrice
MaxBars  == 13  \* Spec: longest raw sequence
PriceCap == 7   \* Spec: prices range over 1..PriceCap
BasePrice == 4  \* Spec: price of the first bar
BigStep  == 6   \* Spec: size of the large one-sided price move
MaxFetchRows  == 2  \* SpecFetch: most rows (and timestamps) from upstream
MaxFetchPrice == 1  \* SpecFetch: numeric upstream cells range over 0..MaxFetchPrice
MaxNaNBars == 6     \* SpecNaN: longest raw sequence
NaNTop     == 3     \* SpecNaN: high of the first bar

(***************************************************************************)
(* Python helpers.                                                         *)
(***************************************************************************)
Max(a, b) == IF a >= b THEN a ELSE b
Min(a, b) == IF a <= b THEN a ELSE b

\* s[k] of a Python list: k >= 0 counts from the front, k < 0 from the back
PyAt(s, k) == IF k < 0 THEN s[Len(s) + k + 1] ELSE s[k + 1]

\* s[-1] = v
SetLast(s, v) == [s EXCEPT ![Len(s)] = v]

(***************************************************************************)
(* Entities.                                                               *)
(***************************************************************************)
ChanKLine(index, datetime, open_price, high, low, close, volume, original_klines) ==
    [index |-> index, datetime |-> datetime, open |-> open_price,
     high |-> high, low |-> low, close |-> close, volume |-> volume,
     original_klines |-> original_klines]

FenXing(k_line, type) ==
    [k_line |-> k_line, type |-> type, datetime |-> k_line.datetime,
     high |-> k_line.high, low |-> k_line.low]

Bi(start_fx, end_fx) ==
    [start_fx |-> start_fx, end_fx |-> end_fx,
     direction |-> IF end_fx.high > start_fx.high THEN "UP" ELSE "DOWN",
     high |-> Max(start_fx.high, end_fx.high),
     low |-> Min(start_fx.low, end_fx.low)]

\* value of current_bi_start before draw_bi has assigned it
NoKLine == ChanKLine(-1, 0, 0, 0, 0, 0, 0, <<>>)
NoFenXing == [k_line |-> NoKLine, type |-> "NONE", datetime |-> 0, high |-> 0, low |-> 0]

(***************************************************************************)
(* ChanEngine.__init__: one raw K-line per DataFrame row, index = row      *)
(* label (0, 1, 2, ... : the callers reset the index), original_klines =   *)
(* [itself].                                                               *)
(***************************************************************************)
RawKLine(idx, row) ==
    ChanKLine(idx, row.datetime, row.open, row.high, row.low, row.close,
              row.volume, <<idx>>)

\* timestamp of the k-th row (0-based): strictly increasing
TimeOf(k) == 100 + k

\* the k-th row (0-based) with the given low and high: even rows rise (open
\* at the low, close at the high), odd rows fall; the volume is k + 1, so
\* that every row has its own
Row(k, l, h) ==
    [datetime |-> TimeOf(k),
     open |-> IF k % 2 = 0 THEN l ELSE h,
     high |-> h, low |-> l,
     close |-> IF k % 2 = 0 THEN h ELSE l,
     volume |-> k + 1]

(***************************************************************************)
(* The DataFrame handed to the constructor.  Its rows are drawn one by one *)
(* as the constructor's loop consumes them.                                *)
(*                                                                         *)
(* SpecStd: any bar with 1 <= low <= high <= MaxPrice, at most MaxRaw      *)
(* rows.                                                                   *)
(*                                                                         *)
(* Spec: walks of at most MaxBars bars.  The first bar is                  *)
(* <<BasePrice, BasePrice>>; every later bar is the bar before it moved by *)
(* one of Moves (<<change of low, change of high>>), with prices kept in   *)
(* 1..PriceCap.                                                            *)
(***************************************************************************)
BarShapes == {s \in (1..MaxPrice) \X (1..MaxPrice) : s[1] <= s[2]}

Moves == {<<1, 1>>, <<-1, -1>>, <<-BigStep, -1>>, <<1, BigStep>>, <<1, -1>>}

MoveBar(b, m) == <<b[1] + m[1], b[2] + m[2]>>

ValidBar(b) == 1 <= b[1] /\ b[1] <= b[2] /\ b[2] <= PriceCap

\* the bars that may follow the rows ingested so far in a walk
WalkBars(raw) ==
    IF Len(raw) = 0 THEN {<<BasePrice, BasePrice>>}
    ELSE LET b == <<PyAt(raw, -1).low, PyAt(raw, -1).high>>
         IN  {MoveBar(b, m) : m \in {mm \in Moves : ValidBar(MoveBar(b, mm))}}

\* body of the constructor's loop for one row
IngestRow(row) ==
    /\ raw_klines' = Append(raw_klines, RawKLine(Len(raw_klines), row))
    /\ UNCHANGED <<df, standard_klines, fenxings, bis, result, current_bi_start, i, pc>>

ingest_bar ==
    /\ pc = "init"
    /\ Len(raw_klines) < MaxRaw
    /\ \E s \in BarShapes : IngestRow(Row(Len(raw_klines), s[1], s[2]))

ingest_walk_bar ==
    /\ pc = "init"
    /\ Len(raw_klines) < MaxBars
    /\ \E b \in WalkBars(raw_klines) : IngestRow(Row(Len(raw_klines), b[1], b[2]))

\* the rows are exhausted: the constructor sets the three result lists and returns
init_done ==
    /\ pc = "init"
    /\ standard_klines' = <<>>
    /\ fenxings' = <<>>
    /\ bis' = <<>>
    /\ pc' = "constructed"
    /\ UNCHANGED <<df, raw_klines, result, current_bi_start, i>>

(***************************************************************************)
(* Stage 1: process_inclusion.                                             *)
(***************************************************************************)
IsIncludedStrict(last_k, next_k) ==
    \/ (last_k.high > next_k.high /\ last_k.low < next_k.low)
    \/ (next_k.high > last_k.high /\ next_k.low < last_k.low)

IsIncluded(last_k, next_k) ==
    \/ (last_k.high >= next_k.high /\ last_k.low <= next_k.low)
    \/ (next_k.high >= last_k.high /\ next_k.low <= last_k.low)

CurrentDirectionEqualDown(res) ==
    IF Len(res) >= 2
    THEN LET last_k == PyAt(res, -1)
             prev_k == PyAt(res, -2)
         IN  IF last_k.high > prev_k.high THEN "UP"
             ELSE IF last_k.high < prev_k.high THEN "DOWN"
             ELSE "DOWN"
    ELSE "UP"

CurrentDirectionInverted(res) ==
    IF Len(res) >= 2
    THEN LET last_k == PyAt(res, -1)
             prev_k == PyAt(res, -2)
         IN  IF last_k.high > prev_k.high THEN "DOWN"
             ELSE IF last_k.high < prev_k.high THEN "UP"
             ELSE "UP"
    ELSE "UP"

CurrentDirectionAlwaysUp(res) == "UP"

CurrentDirection(res) ==
    IF Len(res) >= 2
    THEN LET last_k == PyAt(res, -1)
             prev_k == PyAt(res, -2)
         IN  IF last_k.high > prev_k.high THEN "UP"
             ELSE IF last_k.high < prev_k.high THEN "DOWN"
             ELSE "UP"
    ELSE "UP"

MergeKLineLowFromHigh(last_k, next_k, current_direction) ==
    ChanKLine(next_k.index, next_k.datetime, last_k.open,
              IF current_direction = "UP" THEN Max(last_k.high, next_k.high)
                                          ELSE Min(last_k.high, next_k.high),
              IF current_direction = "UP" THEN Max(last_k.high, next_k.low)
                                          ELSE Min(last_k.high, next_k.low),
              next_k.close, last_k.volume + next_k.volume,
              last_k.original_klines \o next_k.original_klines)

MergeKLineOpenNext(last_k, next_k, current_direction) ==
    ChanKLine(next_k.index, next_k.datetime, next_k.open,
              IF current_direction = "UP" THEN Max(last_k.high, next_k.high)
                                          ELSE Min(last_k.high, next_k.high),
              IF current_direction = "UP" THEN Max(last_k.low, next_k.low)
                                          ELSE Min(last_k.low, next_k.low),
              next_k.close, last_k.volume + next_k.volume,
              last_k.original_klines \o next_k.original_klines)

MergeKLineOuter(last_k, next_k, current_direction) ==
    ChanKLine(next_k.index, next_k.datetime, last_k.open,
              Max(last_k.high, next_k.high), Min(last_k.low, next_k.low),
              next_k.close, last_k.volume + next_k.volume,
              last_k.original_klines \o next_k.original_klines)

MergeKLineDropLeft(last_k, next_k, current_direction) ==
    ChanKLine(next_k.index, next_k.datetime, last_k.open,
              IF current_direction = "UP" THEN Max(last_k.high, next_k.high)
                                          ELSE Min(last_k.high, next_k.high),
              IF current_direction = "UP" THEN Max(last_k.low, next_k.low)
                                          ELSE Min(last_k.low, next_k.low),
              next_k.close, last_k.volume + next_k.volume,
              next_k.original_klines)

MergeKLine(last_k, next_k, current_direction) ==
    ChanKLine(next_k.index, next_k.datetime, last_k.open,
              IF current_direction = "UP" THEN Max(last_k.high, next_k.high)
                                          ELSE Min(last_k.high, next_k.high),
              IF current_direction = "UP" THEN Max(last_k.low, next_k.low)
                                          ELSE Min(last_k.low, next_k.low),
              next_k.close, last_k.volume + next_k.volume,
              last_k.original_klines \o next_k.original_klines)

MergeStepNoMerge(res, next_k) == Append(res, next_k)

MergeStepAppend(res, next_k) ==
    LET last_k == PyAt(res, -1)
    IN  IF IsIncluded(last_k, next_k)
        THEN Append(res, MergeKLine(last_k, next_k, CurrentDirection(res)))
        ELSE Append(res, next_k)

\* one iteration of the loop over raw_klines[1:]
MergeStep(res, next_k) ==
    LET last_k == PyAt(res, -1)
    IN  IF IsIncluded(last_k, next_k)
        THEN SetLast(res, MergeKLine(last_k, next_k, CurrentDirection(res)))
        ELSE Append(res, next_k)

RECURSIVE InclusionLoop(_, _, _)
InclusionLoop(raw, res, k) ==
    IF k < Len(raw) THEN InclusionLoop(raw, MergeStep(res, PyAt(raw, k)), k + 1)
    ELSE res

\* the whole method: the value of self.standard_klines when it returns,
\* given the value std it had when it was called
ProcessInclusion(raw, std) ==
    IF Len(raw) = 0 THEN std
    ELSE IF Len(raw) < 2 THEN raw
    ELSE InclusionLoop(raw, <<PyAt(raw, 0)>>, 1)

\* process_inclusion without its two early returns
process_inclusion_unguarded ==
    /\ pc = "constructed"
    /\ IF Len(raw_klines) = 0
       THEN \* self.raw_klines[0]: IndexError
            /\ pc' = "raised"
            /\ UNCHANGED <<standard_klines, result, i>>
       ELSE /\ result' = <<PyAt(raw_klines, 0)>>
            /\ i' = 1
            /\ IF 1 < Len(raw_klines)
               THEN /\ pc' = "inclusion"
                    /\ UNCHANGED standard_klines
               ELSE /\ standard_klines' = result'
                    /\ pc' = "inclusion_done"
    /\ UNCHANGED <<df, raw_klines, fenxings, bis, current_bi_start>>

process_inclusion ==
    /\ pc = "constructed"
    /\ IF Len(raw_klines) = 0
       THEN /\ pc' = "inclusion_done"
            /\ UNCHANGED <<standard_klines, result, i>>
       ELSE IF Len(raw_klines) < 2
       THEN /\ standard_klines' = raw_klines
            /\ pc' = "inclusion_done"
            /\ UNCHANGED <<result, i>>
       ELSE /\ result' = <<PyAt(raw_klines, 0)>>
            /\ i' = 1
            /\ pc' = "inclusion"
            /\ UNCHANGED standard_klines
    /\ UNCHANGED <<df, raw_klines, fenxings, bis, current_bi_start>>

\* the loop with the merge written back into the raw candle next_k
inclusion_loop_in_place ==
    /\ pc = "inclusion"
    /\ result' = MergeStep(result, PyAt(raw_klines, i))
    /\ raw_klines' = IF IsIncluded(PyAt(result, -1), PyAt(raw_klines, i))
                     THEN [raw_klines EXCEPT ![i + 1] = PyAt(result', -1)]
                     ELSE raw_klines
    /\ i' = i + 1
    /\ IF i + 1 < Len(raw_klines)
       THEN /\ pc' = "inclusion"
            /\ UNCHANGED standard_klines
       ELSE /\ standard_klines' = result'
            /\ pc' = "inclusion_done"
    /\ UNCHANGED <<df, fenxings, bis, current_bi_start>>

inclusion_loop ==
    /\ pc = "inclusion"
    /\ result' = MergeStep(result, PyAt(raw_klines, i))
    /\ i' = i + 1
    /\ IF i + 1 < Len(raw_klines)
       THEN /\ pc' = "inclusion"
            /\ UNCHANGED standard_klines
       ELSE /\ standard_klines' = result'
            /\ pc' = "inclusion_done"
    /\ UNCHANGED <<df, raw_klines, fenxings, bis, current_bi_start>>

(***************************************************************************)
(* Stage 2: find_fenxing.                                                  *)
(***************************************************************************)
FenxingsKept(old) == old

\* self.fenxings = []
FenxingsReset(old) == <<>>

BisKept(old) == old

\* self.bis = []
BisReset(old) == <<>>

FenxingFirstAtZero == 1 - 1

\* first index the 3-wide window is centred on
FenxingFirst == 1

IsTop(k1, k2, k3) ==
    (k2.high > k1.high /\ k2.high > k3.high) /\ (k2.low > k1.low /\ k2.low > k3.low)

IsBottomLeftOnly(k1, k2, k3) == k2.high < k1.high /\ k2.low < k1.low

IsBottom(k1, k2, k3) ==
    (k2.high < k1.high /\ k2.high < k3.high) /\ (k2.low < k1.low /\ k2.low < k3.low)

\* the fractals one iteration appends for the window centred on index k
WindowFenxings(std, k) ==
    LET k1 == PyAt(std, k - 1)
        k2 == PyAt(std, k)
        k3 == PyAt(std, k + 1)
    IN  (IF IsTop(k1, k2, k3) THEN <<FenXing(k2, "TOP")>> ELSE <<>>)
        \o (IF IsBottom(k1, k2, k3) THEN <<FenXing(k2, "BOTTOM")>> ELSE <<>>)

find_fenxing ==
    /\ pc = "inclusion_done"
    /\ fenxings' = FenxingsReset(fenxings)
    /\ IF Len(standard_klines) < 3
       THEN /\ pc' = "fenxing_done"
            /\ UNCHANGED i
       ELSE /\ i' = FenxingFirst
            /\ pc' = IF FenxingFirst < Len(standard_klines) - 1
                     THEN "fenxing" ELSE "fenxing_done"
    /\ UNCHANGED <<df, raw_klines, standard_klines, bis, result, current_bi_start>>

fenxing_loop ==
    /\ pc = "fenxing"
    /\ IF i + 1 >= Len(standard_klines)
       THEN \* standard_klines[i+1]: IndexError
            /\ pc' = "raised"
            /\ UNCHANGED <<fenxings, i>>
       ELSE /\ fenxings' = fenxings \o WindowFenxings(standard_klines, i)
            /\ i' = i + 1
            /\ pc' = IF i + 1 < Len(standard_klines) - 1
                     THEN "fenxing" ELSE "fenxing_done"
    /\ UNCHANGED <<df, raw_klines, standard_klines, bis, result, current_bi_start>>

RECURSIVE FenxingLoop(_, _, _)
FenxingLoop(std, acc, k) ==
    IF k < Len(std) - 1 THEN FenxingLoop(std, acc \o WindowFenxings(std, k), k + 1)
    ELSE acc

\* the whole method: the value of self.fenxings when it returns, given the
\* value old it had when the method was called
FindFenxing(std, old) ==
    IF Len(std) < 3 THEN FenxingsReset(old)
    ELSE FenxingLoop(std, FenxingsReset(old), FenxingFirst)

(***************************************************************************)
(* Stage 3: draw_bi.                                                       *)
(***************************************************************************)
\* minimum index difference between the two ends of a stroke (5K principle)
MinBarsLoose == 4 - 1

MinBars == 4

\* list.index: the first position holding the K-line; ValueError if none
InStdAmongRaw(std, fx) == \E k \in 1..Len(raw_klines) : raw_klines[k] = fx.k_line

InStd(std, fx) == \E k \in 1..Len(std) : std[k] = fx.k_line

get_std_index(std, fx) ==
    (CHOOSE k \in 1..Len(std) :
        /\ std[k] = fx.k_line
        /\ \A j \in 1..(k - 1) : std[j] /= fx.k_line) - 1

UpdateStartAlways(cur, next_fx) == TRUE

UpdateStartStrict(cur, next_fx) ==
    IF cur.type = "TOP" THEN next_fx.high > cur.high
    ELSE next_fx.low < cur.low

UpdateStart(cur, next_fx) ==
    IF cur.type = "TOP" THEN next_fx.high >= cur.high
    ELSE next_fx.low <= cur.low

HasEnoughBarsExact(start_idx, end_idx) == (end_idx - start_idx) = MinBars

HasEnoughBars(start_idx, end_idx) == (end_idx - start_idx) >= MinBars

ValueCheckLoose(cur, next_fx) ==
    IF cur.type = "TOP"
    THEN cur.high >= next_fx.high /\ cur.low >= next_fx.low
    ELSE cur.low <= next_fx.low /\ cur.high <= next_fx.high

ValueCheck(cur, next_fx) ==
    IF cur.type = "TOP"
    THEN cur.high > next_fx.high /\ cur.low > next_fx.low
    ELSE cur.low < next_fx.low /\ cur.high < next_fx.high

RewriteLastByPop(bs, cur, next_fx) == SubSeq(bs, 1, Len(bs) - 1)

RewriteLastFromAnchor(bs, cur, next_fx) == SetLast(bs, Bi(cur, next_fx))

\* self.bis[-1] = Bi(prev_bi_start, next_fx)
RewriteLast(bs, cur, next_fx) == SetLast(bs, Bi(PyAt(bs, -1).start_fx, next_fx))

BiContinueOffByOne(k, fxs) == k <= Len(fxs)

\* loop condition of draw_bi
BiContinue(k, fxs) == k < Len(fxs)

draw_bi ==
    /\ pc = "fenxing_done"
    /\ bis' = BisReset(bis)
    /\ IF Len(fenxings) = 0
       THEN /\ pc' = "done"
            /\ UNCHANGED <<current_bi_start, i>>
       ELSE /\ current_bi_start' = PyAt(fenxings, 0)
            /\ i' = 1
            /\ pc' = IF BiContinue(1, fenxings) THEN "bi" ELSE "done"
    /\ UNCHANGED <<df, raw_klines, standard_klines, fenxings, result>>

BiExtendNoRewrite(next_fx) ==
    IF UpdateStart(current_bi_start, next_fx)
    THEN /\ current_bi_start' = next_fx
         /\ UNCHANGED bis
    ELSE UNCHANGED <<current_bi_start, bis>>

\* body of the loop when next_fx has the type of current_bi_start
BiExtend(next_fx) ==
    IF UpdateStart(current_bi_start, next_fx)
    THEN /\ current_bi_start' = next_fx
         /\ bis' = IF Len(bis) > 0
                   THEN RewriteLast(bis, current_bi_start, next_fx)
                   ELSE bis
    ELSE UNCHANGED <<current_bi_start, bis>>

BiCandidateKeepAnchor(next_fx) ==
    IF /\ HasEnoughBars(get_std_index(standard_klines, current_bi_start),
                        get_std_index(standard_klines, next_fx))
       /\ ValueCheck(current_bi_start, next_fx)
    THEN /\ bis' = Append(bis, Bi(current_bi_start, next_fx))
         /\ UNCHANGED current_bi_start
    ELSE UNCHANGED <<current_bi_start, bis>>

\* body of the loop when next_fx has the other type: candidate end of a
\* stroke (reached only when both K-lines are found in standard_klines)
BiCandidate(next_fx) ==
    IF /\ HasEnoughBars(get_std_index(standard_klines, current_bi_start),
                        get_std_index(standard_klines, next_fx))
       /\ ValueCheck(current_bi_start, next_fx)
    THEN /\ bis' = Append(bis, Bi(current_bi_start, next_fx))
         /\ current_bi_start' = next_fx
    ELSE UNCHANGED <<current_bi_start, bis>>

\* one iteration of the loop over fenxings[1:]
bi_loop ==
    /\ pc = "bi"
    /\ IF i >= Len(fenxings)
       THEN \* self.fenxings[i]: IndexError
            /\ pc' = "raised"
            /\ UNCHANGED <<current_bi_start, bis, i>>
       ELSE LET next_fx == PyAt(fenxings, i)
            IN  IF next_fx.type = current_bi_start.type
                THEN /\ BiExtend(next_fx)
                     /\ i' = i + 1
                     /\ pc' = IF BiContinue(i + 1, fenxings) THEN "bi" ELSE "done"
                ELSE IF ~(/\ InStd(standard_klines, current_bi_start)
                          /\ InStd(standard_klines, next_fx))
                THEN \* get_std_index: ValueError
                     /\ pc' = "raised"
                     /\ UNCHANGED <<current_bi_start, bis, i>>
                ELSE /\ BiCandidate(next_fx)
                     /\ i' = i + 1
                     /\ pc' = IF BiContinue(i + 1, fenxings) THEN "bi" ELSE "done"
    /\ UNCHANGED <<df, raw_klines, standard_klines, fenxings, result>>

\* the loop body as a function of the anchor and the stroke list
\* (st = [cur |-> current_bi_start, bs |-> self.bis])
DrawBiBody(std, st, next_fx) ==
    IF next_fx.type = st.cur.type
    THEN IF UpdateStart(st.cur, next_fx)
         THEN [cur |-> next_fx,
               bs |-> IF Len(st.bs) > 0 THEN RewriteLast(st.bs, st.cur, next_fx)
                                        ELSE st.bs]
         ELSE st
    ELSE IF /\ HasEnoughBars(get_std_index(std, st.cur), get_std_index(std, next_fx))
            /\ ValueCheck(st.cur, next_fx)
         THEN [cur |-> next_fx, bs |-> Append(st.bs, Bi(st.cur, next_fx))]
         ELSE st

\* the iterations on fenxings[k], ..., fenxings[stop - 1]
RECURSIVE DrawBiLoop(_, _, _, _, _)
DrawBiLoop(std, fxs, st, k, stop) ==
    IF k < stop /\ BiContinue(k, fxs)
    THEN DrawBiLoop(std, fxs, DrawBiBody(std, st, PyAt(fxs, k)), k + 1, stop)
    ELSE st

\* the whole method: the value of self.bis when it returns, given the value
\* old it had when the method was called
DrawBi(std, fxs, old) ==
    IF Len(fxs) = 0 THEN BisReset(old)
    ELSE DrawBiLoop(std, fxs, [cur |-> PyAt(fxs, 0), bs |-> BisReset(old)],
                    1, Len(fxs)).bs

(***************************************************************************)
(* fetch_csi300_data (data_fetcher.py): cleaning of the upstream frame.    *)
(* A cell is a number or NaN; an upstream cell is numeric or not.          *)
(***************************************************************************)
NaN == [nan |-> TRUE, val |-> 0]

Number(v) == [nan |-> FALSE, val |-> v]

UpstreamCells ==
    {[numeric |-> FALSE, val |-> 0]} \cup
    {[numeric |-> TRUE, val |-> v] : v \in 0..MaxFetchPrice}

\* pd.to_numeric(..., errors='coerce') on one cell
to_numeric(c) == IF c.numeric THEN Number(c.val) ELSE NaN

\* rows the upstream source can return: open, high and low share a cell
UpstreamRows ==
    {[datetime |-> t, open |-> o, high |-> o, low |-> o, close |-> c,
      volume |-> [numeric |-> TRUE, val |-> 1]] :
        t \in 1..MaxFetchRows, o \in UpstreamCells, c \in UpstreamCells}

cols_to_check == <<"open", "high", "low", "close">>

NumericRow(r) ==
    [datetime |-> r.datetime, open |-> to_numeric(r.open),
     high |-> to_numeric(r.high), low |-> to_numeric(r.low),
     close |-> to_numeric(r.close), volume |-> to_numeric(r.volume)]

\* df.dropna(subset=['open', 'high', 'low', 'close'])
KeepRow(r) == \A k \in 1..Len(cols_to_check) : ~r[cols_to_check[k]].nan

dropna(d) == SelectSeq(d, KeepRow)

\* mask_zero = (df[col] <= 0) on one row
mask_zero(r, col) == ~r[col].nan /\ r[col].val <= 0

\* df.loc[mask_zero, col] = df.loc[mask_zero, 'close']
FixColumn(d, col) ==
    [k \in 1..Len(d) |->
        IF mask_zero(d[k], col) THEN [d[k] EXCEPT ![col] = d[k].close]
        ELSE d[k]]

SortedByDatetime(d) ==
    \A k \in 1..(Len(d) - 1) : d[k].datetime <= d[k + 1].datetime

\* the orders df.sort_values('datetime') can give (the default sort is not
\* stable: rows of equal datetime come in any order)
SortValues(d) ==
    {[k \in 1..Len(d) |-> d[p[k]]] :
        p \in {q \in [1..Len(d) -> 1..Len(d)] :
                 /\ \A a, b \in 1..Len(d) : a /= b => q[a] /= q[b]
                 /\ \A a \in 1..(Len(d) - 1) :
                       d[q[a]].datetime <= d[q[a + 1]].datetime}}

\* the upstream call returns one more row
upstream_row ==
    /\ pc = "init"
    /\ Len(df) < MaxFetchRows
    /\ \E r \in UpstreamRows : df' = Append(df, r)
    /\ UNCHANGED <<raw_klines, standard_klines, fenxings, bis, result,
                   current_bi_start, i, pc>>

\* lines 191-207: empty check, to_numeric and dropna
fetch_to_numeric ==
    /\ pc = "init"
    /\ IF Len(df) = 0
       THEN /\ pc' = "fetched"
            /\ UNCHANGED <<df, i>>
       ELSE /\ df' = dropna([k \in 1..Len(df) |-> NumericRow(df[k])])
            /\ i' = 0
            /\ pc' = "fix"
    /\ UNCHANGED <<raw_klines, standard_klines, fenxings, bis, result,
                   current_bi_start>>

\* lines 210-214: one iteration of the loop over cols_to_check
fetch_fix_col ==
    /\ pc = "fix"
    /\ df' = FixColumn(df, cols_to_check[i + 1])
    /\ i' = i + 1
    /\ pc' = IF i + 1 < Len(cols_to_check) THEN "fix" ELSE "sort"
    /\ UNCHANGED <<raw_klines, standard_klines, fenxings, bis, result,
                   current_bi_start>>

\* lines 216-217: sort and return
fetch_sort ==
    /\ pc = "sort"
    /\ df' \in SortValues(df)
    /\ pc' = "fetched"
    /\ UNCHANGED <<raw_klines, standard_klines, fenxings, bis, result,
                   current_bi_start, i>>

(***************************************************************************)
(* process_inclusion on bars whose low may be NaN (the constructor does    *)
(* not validate its rows).  The low of a K-line is a cell (a number or     *)
(* NaN), its high a number.  Every comparison with NaN is false; Python's  *)
(* max(a, b) is b if b > a and a otherwise, min(a, b) is b if b < a and a  *)
(* otherwise.                                                              *)
(***************************************************************************)
FloatLe(a, b) == ~a.nan /\ ~b.nan /\ a.val <= b.val

FloatLt(a, b) == ~a.nan /\ ~b.nan /\ a.val < b.val

PyMax(a, b) == IF FloatLt(a, b) THEN b ELSE a

PyMin(a, b) == IF FloatLt(b, a) THEN b ELSE a

IsIncludedFloat(last_k, next_k) ==
    \/ (last_k.high >= next_k.high /\ FloatLe(last_k.low, next_k.low))
    \/ (next_k.high >= last_k.high /\ FloatLe(next_k.low, last_k.low))

MergeKLineFloat(last_k, next_k, current_direction) ==
    ChanKLine(next_k.index, next_k.datetime, last_k.open,
              IF current_direction = "UP" THEN Max(last_k.high, next_k.high)
                                          ELSE Min(last_k.high, next_k.high),
              IF current_direction = "UP" THEN PyMax(last_k.low, next_k.low)
                                          ELSE PyMin(last_k.low, next_k.low),
              next_k.close, last_k.volume + next_k.volume,
              last_k.original_klines \o next_k.original_klines)

MergeStepFloat(res, next_k) ==
    LET last_k == PyAt(res, -1)
    IN  IF IsIncludedFloat(last_k, next_k)
        THEN SetLast(res, MergeKLineFloat(last_k, next_k, CurrentDirection(res)))
        ELSE Append(res, next_k)

\* the k-th row (0-based) with a cell as low
FloatRow(k, l, h) ==
    [datetime |-> TimeOf(k), open |-> h, high |-> h, low |-> l, close |-> h,
     volume |-> k + 1]

HasNaN(raw) == \E k \in 1..Len(raw) : raw[k].low.nan

\* the bars that may follow the rows ingested so far: the high stays or
\* falls by one, the low is the high, one below it, or (once) NaN
NaNBars(raw) ==
    LET highs == IF Len(raw) = 0 THEN {NaNTop}
                 ELSE {PyAt(raw, -1).high - 1, PyAt(raw, -1).high} \cap (1..NaNTop)
    IN  UNION {{<<l, h>> : l \in {Number(v) : v \in {h - 1, h} \cap (1..h)} \cup
                                 (IF HasNaN(raw) THEN {} ELSE {NaN})} :
               h \in highs}

ingest_nan_bar ==
    /\ pc = "init"
    /\ Len(raw_klines) < MaxNaNBars
    /\ \E b \in NaNBars(raw_klines) :
          IngestRow(FloatRow(Len(raw_klines), b[1], b[2]))

inclusion_loop_float ==
    /\ pc = "inclusion"
    /\ result' = MergeStepFloat(result, PyAt(raw_klines, i))
    /\ i' = i + 1
    /\ IF i + 1 < Len(raw_klines)
       THEN /\ pc' = "inclusion"
            /\ UNCHANGED standard_klines
       ELSE /\ standard_klines' = result'
            /\ pc' = "inclusion_done"
    /\ UNCHANGED <<df, raw_klines, fenxings, bis, current_bi_start>>

(***************************************************************************)
(* Specifications.                                                         *)
(***************************************************************************)
Init ==
    /\ raw_klines = <<>>
    /\ standard_klines = <<>>
    /\ fenxings = <<>>
    /\ bis = <<>>
    /\ result = <<>>
    /\ current_bi_start = NoFenXing
    /\ i = 0
    /\ pc = "init"
    /\ df = <<>>

\* SpecStd: every small bar sequence through merging and fractal detection
NextStd ==
    \/ ingest_bar
    \/ init_done
    \/ process_inclusion
    \/ inclusion_loop
    \/ find_fenxing
    \/ fenxing_loop

SpecStd == Init /\ [][NextStd]_vars

\* Spec: walks through the whole pipeline, as the callers run it
Next ==
    \/ ingest_walk_bar
    \/ init_done
    \/ process_inclusion
    \/ inclusion_loop
    \/ find_fenxing
    \/ fenxing_loop
    \/ draw_bi
    \/ bi_loop

Spec == Init /\ [][Next]_vars

\* SpecNaN: falling bars, one of which may have a NaN low, through merging
NextNaN ==
    \/ ingest_nan_bar
    \/ init_done
    \/ process_inclusion
    \/ inclusion_loop_float

SpecNaN == Init /\ [][NextNaN]_vars

\* one call of fetch_csi300_data on every upstream frame
NextFetch ==
    \/ upstream_row
    \/ fetch_to_numeric
    \/ fetch_fix_col
    \/ fetch_sort

SpecFetch == Init /\ [][NextFetch]_vars

(***************************************************************************)
(* Vocabulary of the properties.                                           *)
(***************************************************************************)
AfterInclusion == pc \notin {"init", "constructed", "inclusion"}

AfterFenxing == AfterInclusion /\ pc \notin {"inclusion_done", "fenxing"}

\* a's [low, high] interval encloses b's
Encloses(a, b) == a.low <= b.low /\ b.high <= a.high

NoContainment(s) ==
    \A k \in 1..(Len(s) - 1) : ~Encloses(s[k], s[k + 1]) /\ ~Encloses(s[k + 1], s[k])

RECURSIVE Provenance(_)
Provenance(s) ==
    IF Len(s) = 0 THEN <<>>
    ELSE Provenance(SubSeq(s, 1, Len(s) - 1)) \o s[Len(s)].original_klines

\* a fresh engine constructed from the rows of the standard K-lines
Reingest(std) ==
    [k \in 1..Len(std) |->
        RawKLine(k - 1, [datetime |-> std[k].datetime, open |-> std[k].open,
                         high |-> std[k].high, low |-> std[k].low,
                         close |-> std[k].close, volume |-> std[k].volume])]

StdIndex(fx) == get_std_index(standard_klines, fx)

StrictlyAbove(a, b) == a.high > b.high /\ a.low > b.low

\* 0-based interior indices of standard_klines that are local extrema
TopAt(k) ==
    /\ StrictlyAbove(standard_klines[k + 1], standard_klines[k])
    /\ StrictlyAbove(standard_klines[k + 1], standard_klines[k + 2])

BottomAt(k) ==
    /\ StrictlyAbove(standard_klines[k], standard_klines[k + 1])
    /\ StrictlyAbove(standard_klines[k + 2], standard_klines[k + 1])

Interior == 1..(Len(standard_klines) - 2)

\* the stroke ended at an earlier fractal before an extension moved its end:
\* a fractal of the end's type lies between its ends and was acceptable
Rewritten(b) ==
    \E j \in 1..Len(fenxings) :
        LET f == fenxings[j]
        IN  /\ f.type = b.end_fx.type
            /\ StdIndex(b.start_fx) < StdIndex(f)
            /\ StdIndex(f) < StdIndex(b.end_fx)
            /\ StdIndex(f) - StdIndex(b.start_fx) >= 4
            /\ IF b.start_fx.type = "TOP" THEN StrictlyAbove(b.start_fx, f)
                                          ELSE StrictlyAbove(f, b.start_fx)

(***************************************************************************)
(* C1: no two adjacent standard K-lines are in containment, and neither    *)
(* are two adjacent entries of the buffered result list after any loop     *)
(* iteration of process_inclusion (every bar has low <= high).             *)
(***************************************************************************)
C1_NoAdjacentContainment ==
    NoContainment(result) /\ NoContainment(standard_klines)

C1_Witness ==
    /\ pc = "inclusion_done"
    /\ \E k \in 2..Len(standard_klines) :
          /\ Len(standard_klines[k].original_klines) >= 2
          /\ standard_klines[k].high < standard_klines[k - 1].high

(***************************************************************************)
(* C2: for N >= 0 raw K-lines, the original_klines of the standard K-lines *)
(* are contiguous runs of raw indices, pairwise disjoint, and concatenate  *)
(* to 0..N-1 in order.                                                     *)
(***************************************************************************)
C2_RawIndexCoverage ==
    AfterInclusion =>
        /\ Provenance(standard_klines) = [k \in 1..Len(raw_klines) |-> k - 1]
        /\ \A k \in 1..Len(standard_klines) :
              LET o == standard_klines[k].original_klines
              IN  /\ Len(o) >= 1
                  /\ \A j \in 1..(Len(o) - 1) : o[j + 1] = o[j] + 1
        /\ \A k, m \in 1..Len(standard_klines) :
              k /= m =>
                 {standard_klines[k].original_klines[j] :
                     j \in 1..Len(standard_klines[k].original_klines)}
                 \cap {standard_klines[m].original_klines[j] :
                     j \in 1..Len(standard_klines[m].original_klines)} = {}

C2_Witness ==
    /\ AfterInclusion
    /\ Len(standard_klines) >= 2
    /\ Len(standard_klines[1].original_klines) >= 2
    /\ Len(standard_klines[2].original_klines) >= 2

(***************************************************************************)
(* C3: merging is idempotent: a new run on the standard K-lines yields a   *)
(* sequence of the same length with the same high, low, open, close and    *)
(* volume at every position.                                               *)
(***************************************************************************)
C3_Idempotent ==
    AfterInclusion =>
        LET again == ProcessInclusion(Reingest(standard_klines), <<>>)
        IN  /\ Len(again) = Len(standard_klines)
            /\ \A k \in 1..Len(again) :
                  /\ again[k].high = standard_klines[k].high
                  /\ again[k].low = standard_klines[k].low
                  /\ again[k].open = standard_klines[k].open
                  /\ again[k].close = standard_klines[k].close
                  /\ again[k].volume = standard_klines[k].volume

C3_Witness ==
    /\ AfterInclusion
    /\ Len(standard_klines) >= 3
    /\ Len(standard_klines) < Len(raw_klines)

(***************************************************************************)
(* C4: at every point of draw_bi and in its result, every stroke's end     *)
(* apex is at least 4 standard indices after its start apex, rewritten     *)
(* strokes included.                                                       *)
(***************************************************************************)
C4_Spacing ==
    \A k \in 1..Len(bis) :
        /\ InStd(standard_klines, bis[k].start_fx)
        /\ InStd(standard_klines, bis[k].end_fx)
        /\ StdIndex(bis[k].end_fx) - StdIndex(bis[k].start_fx) >= 4

C4_Witness ==
    /\ pc = "done"
    /\ \E k \in 1..Len(bis) : Rewritten(bis[k])

(***************************************************************************)
(* C5: every stroke of the final list is value-monotone: a DOWN stroke has *)
(* start.high > end.high and start.low > end.low, an UP stroke has         *)
(* start.low < end.low and start.high < end.high.                          *)
(***************************************************************************)
C5_ValueMonotonicity ==
    pc = "done" =>
        \A k \in 1..Len(bis) :
            LET s == bis[k].start_fx
                e == bis[k].end_fx
            IN  IF bis[k].direction = "DOWN"
                THEN s.high > e.high /\ s.low > e.low
                ELSE s.low < e.low /\ s.high < e.high

(***************************************************************************)
(* C6: at every point of draw_bi, each stroke joins fractals of different  *)
(* types and each stroke starts at the very fractal the stroke before it   *)
(* ends at.                                                                *)
(***************************************************************************)
C6_Alternation ==
    /\ \A k \in 1..Len(bis) : bis[k].start_fx.type /= bis[k].end_fx.type
    /\ \A k \in 1..(Len(bis) - 1) : bis[k].end_fx = bis[k + 1].start_fx

C6_Witness ==
    /\ Len(bis) >= 2
    /\ Rewritten(bis[1])

(***************************************************************************)
(* C7: no fractal has its apex at index 0 or M-1 of the standard sequence. *)
(***************************************************************************)
C7_NoBoundaryFractal ==
    \A j \in 1..Len(fenxings) :
        /\ InStd(standard_klines, fenxings[j])
        /\ StdIndex(fenxings[j]) > 0
        /\ StdIndex(fenxings[j]) < Len(standard_klines) - 1

C7_Witness ==
    /\ pc = "fenxing_done"
    /\ Len(standard_klines) = 4
    /\ Len(fenxings) = 2

(***************************************************************************)
(* C8: the fractal list is exactly the interior indices that are strict    *)
(* local tops or bottoms, in increasing order, one fractal per index with  *)
(* the matching type, and each fractal copies high, low and timestamp of   *)
(* its apex.                                                               *)
(***************************************************************************)
C8_FenxingExact ==
    AfterFenxing =>
        /\ \A k \in Interior : ~(TopAt(k) /\ BottomAt(k))
        /\ \A j \in 1..Len(fenxings) :
              LET f == fenxings[j]
              IN  /\ InStd(standard_klines, f)
                  /\ StdIndex(f) \in Interior
                  /\ f.type = "TOP" <=> TopAt(StdIndex(f))
                  /\ f.type = "BOTTOM" <=> BottomAt(StdIndex(f))
                  /\ f.type \in {"TOP", "BOTTOM"}
                  /\ f.high = f.k_line.high
                  /\ f.low = f.k_line.low
                  /\ f.datetime = f.k_line.datetime
        /\ \A j \in 1..(Len(fenxings) - 1) :
              StdIndex(fenxings[j]) < StdIndex(fenxings[j + 1])
        /\ \A k \in Interior :
              (TopAt(k) \/ BottomAt(k)) =>
                 \E j \in 1..Len(fenxings) : StdIndex(fenxings[j]) = k

C8_Witness ==
    /\ pc = "fenxing_done"
    /\ Len(fenxings) >= 3
    /\ Len(standard_klines) > Len(fenxings) + 3

(***************************************************************************)
(* C9: with zero raw K-lines the three stages run to completion without    *)
(* error and leave standard_klines, fenxings and bis empty.                *)
(***************************************************************************)
C9_EmptyInput ==
    (Len(raw_klines) = 0 /\ pc /= "init") =>
        /\ pc /= "raised"
        /\ pc /= "done" => ENABLED Next
        /\ standard_klines = <<>>
        /\ fenxings = <<>>
        /\ bis = <<>>

C9_Witness ==
    /\ Len(raw_klines) = 0
    /\ pc = "done"

(***************************************************************************)
(* C10: fewer than 3 standard K-lines give no fractal and no stroke, fewer *)
(* than 2 fractals give no stroke, and no error is signalled.              *)
(***************************************************************************)
C10_InsufficientData ==
    /\ (AfterInclusion /\ Len(standard_klines) < 3) =>
          fenxings = <<>> /\ bis = <<>> /\ pc /= "raised"
    /\ (AfterFenxing /\ Len(fenxings) < 2) =>
          bis = <<>> /\ pc /= "raised"

C10_Witness ==
    /\ pc = "done"
    /\ Len(fenxings) = 1
    /\ Len(standard_klines) >= 5

(***************************************************************************)
(* C11 as stated: once the anchor has been followed by a fractal of the    *)
(* other type at distance 2, every later fractal of the other type at      *)
(* distance 6 from that anchor that satisfies the value ordering ends the  *)
(* stroke from the anchor when it is scanned, and no stroke ends at the    *)
(* near fractal.                                                           *)
(***************************************************************************)
C11_NearThenFar ==
    (pc = "bi" /\ i >= 1 /\ i < Len(fenxings)) =>
        LET a == current_bi_start
            n == PyAt(fenxings, i - 1)
        IN  (n.type /= a.type /\ StdIndex(n) - StdIndex(a) = 2) =>
               \A f \in i..(Len(fenxings) - 1) :
                  LET far == PyAt(fenxings, f)
                      st == DrawBiLoop(standard_klines, fenxings,
                                       [cur |-> a, bs |-> bis], i, f + 1)
                  IN  (/\ far.type /= a.type
                       /\ StdIndex(far) - StdIndex(a) = 6
                       /\ IF a.type = "TOP" THEN StrictlyAbove(a, far)
                                            ELSE StrictlyAbove(far, a)) =>
                         /\ Len(st.bs) > 0
                         /\ st.bs[Len(st.bs)].start_fx = a
                         /\ st.bs[Len(st.bs)].end_fx = far
                         /\ \A k \in 1..Len(st.bs) : st.bs[k].end_fx /= n

(***************************************************************************)
(* C11 amended: if the fractal scanned is of the other type than the       *)
(* anchor, at distance 6 from it and satisfies the value ordering, and a   *)
(* fractal of that type at distance 2 from the anchor was scanned before   *)
(* (the anchor has not been replaced since), the iteration appends the     *)
(* stroke anchor -> scanned fractal and no stroke ends at the near fractal.*)
(***************************************************************************)
C11_FarFromCurrentAnchor ==
    [][(pc = "bi" /\ i >= 1 /\ i < Len(fenxings)) =>
          LET a == current_bi_start
              far == PyAt(fenxings, i)
          IN  \A m \in 0..(i - 1) :
                 LET n == PyAt(fenxings, m)
                 IN  (/\ n.type /= a.type
                      /\ StdIndex(n) - StdIndex(a) = 2
                      /\ far.type /= a.type
                      /\ StdIndex(far) - StdIndex(a) = 6
                      /\ IF a.type = "TOP" THEN StrictlyAbove(a, far)
                                           ELSE StrictlyAbove(far, a)) =>
                        /\ bis' = Append(bis, Bi(a, far))
                        /\ current_bi_start' = far
                        /\ \A k \in 1..Len(bis') : bis'[k].end_fx /= n]_vars

C11_Witness ==
    /\ pc \in {"bi", "done"}
    /\ Len(bis) >= 1
    /\ LET b == bis[Len(bis)]
       IN  /\ b.end_fx = current_bi_start
           /\ b.end_fx = PyAt(fenxings, i - 1)
           /\ StdIndex(b.end_fx) - StdIndex(b.start_fx) = 6
           /\ ~Rewritten(b)
           /\ \E m \in 1..Len(fenxings) :
                 /\ fenxings[m].type = b.end_fx.type
                 /\ StdIndex(fenxings[m]) = StdIndex(b.start_fx) + 2

(***************************************************************************)
(* C12: draw_bi never fails: no stage ends in an exception, the K-line of  *)
(* every fractal is found in standard_klines, and every iteration of the   *)
(* stroke loop can be taken until the loop ends.                           *)
(***************************************************************************)
C12_DrawBiNeverFails ==
    /\ pc /= "raised"
    /\ pc \in {"fenxing_done", "bi", "done"} =>
          \A m \in 1..Len(fenxings) : InStd(standard_klines, fenxings[m])
    /\ pc = "fenxing_done" => ENABLED draw_bi
    /\ pc = "bi" => (i < Len(fenxings) /\ ENABLED bi_loop)

\* draw_bi has returned after skipping a candidate and after looking up a
\* merged K-line
C12_Witness ==
    /\ pc = "done"
    /\ Len(bis) >= 1
    /\ \E m \in 2..Len(fenxings) :
          \A k \in 1..Len(bis) :
             bis[k].start_fx /= fenxings[m] /\ bis[k].end_fx /= fenxings[m]
    /\ \E k \in 1..Len(bis) : Len(bis[k].end_fx.k_line.original_klines) > 1

(***************************************************************************)
(* C13: an iteration of the stroke loop leaves the stroke list unchanged,  *)
(* appends one stroke, or replaces the last stroke by the stroke from the  *)
(* same start to another fractal: the count never decreases, the strokes   *)
(* before the last one are unchanged and no start changes.                 *)
(***************************************************************************)
C13_OnlyLastEndChanges ==
    [][pc = "bi" =>
          /\ Len(bis') >= Len(bis)
          /\ \A k \in 1..(Len(bis) - 1) : bis'[k] = bis[k]
          /\ \A k \in 1..Len(bis) : bis'[k].start_fx = bis[k].start_fx
          /\ \/ bis' = bis
             \/ Len(bis') = Len(bis) + 1 /\ SubSeq(bis', 1, Len(bis)) = bis
             \/ /\ Len(bis) > 0
                /\ \E m \in 1..Len(fenxings) :
                      bis' = SetLast(bis, Bi(PyAt(bis, -1).start_fx, fenxings[m]))]_vars

\* the last stroke has been rewritten while an earlier stroke exists
C13_Witness ==
    /\ Len(bis) >= 2
    /\ Rewritten(bis[Len(bis)])
    /\ bis[Len(bis)].end_fx = current_bi_start

(***************************************************************************)
(* C14: no stage writes to its input: the steps of process_inclusion leave *)
(* raw_klines unchanged, the steps of find_fenxing leave standard_klines   *)
(* (and raw_klines) unchanged, and the steps of draw_bi leave              *)
(* standard_klines and fenxings (and raw_klines) unchanged.                *)
(***************************************************************************)
C14_NoFeedback ==
    [][/\ pc \in {"constructed", "inclusion"} => raw_klines' = raw_klines
       /\ pc \in {"inclusion_done", "fenxing"} =>
             /\ standard_klines' = standard_klines
             /\ raw_klines' = raw_klines
       /\ pc \in {"fenxing_done", "bi"} =>
             /\ standard_klines' = standard_klines
             /\ fenxings' = fenxings
             /\ raw_klines' = raw_klines]_vars

\* all three stages have run and each produced something: a merge, a
\* fractal and a stroke
C14_Witness ==
    /\ pc = "done"
    /\ Len(standard_klines) < Len(raw_klines)
    /\ Len(fenxings) >= 1
    /\ Len(bis) >= 1

(***************************************************************************)
(* C15: when the three stages have run, running them again on the same     *)
(* engine (from the state the first run left) gives the same standard      *)
(* K-lines, fractals and strokes, and so does running them on a fresh      *)
(* engine built from the same bars.                                        *)
(***************************************************************************)
C15_NoRetainedState ==
    pc = "done" =>
        LET std2 == ProcessInclusion(raw_klines, standard_klines)
            fxs2 == FindFenxing(std2, fenxings)
            bis2 == DrawBi(std2, fxs2, bis)
            std0 == ProcessInclusion(raw_klines, <<>>)
            fxs0 == FindFenxing(std0, <<>>)
            bis0 == DrawBi(std0, fxs0, <<>>)
        IN  /\ std2 = standard_klines /\ fxs2 = fenxings /\ bis2 = bis
            /\ std0 = standard_klines /\ fxs0 = fenxings /\ bis0 = bis

\* a run whose three outputs are non-trivial: a merge, a same-type
\* extension and two strokes
C15_Witness ==
    /\ pc = "done"
    /\ Len(standard_klines) < Len(raw_klines)
    /\ Len(bis) >= 2
    /\ Len(fenxings) > Len(bis) + 1
    /\ DrawBi(standard_klines, fenxings, bis) = bis

(***************************************************************************)
(* C16: every non-empty frame returned by fetch_csi300_data has            *)
(* non-decreasing timestamps and strictly positive open, high, low and     *)
(* close in every row.                                                     *)
(***************************************************************************)
C16_FetchedBarsClean ==
    (pc = "fetched" /\ Len(df) > 0) =>
        /\ SortedByDatetime(df)
        /\ \A k \in 1..Len(df) : \A c \in 1..Len(cols_to_check) :
              /\ ~df[k][cols_to_check[c]].nan
              /\ df[k][cols_to_check[c]].val > 0

(***************************************************************************)
(* C17: an iteration of the merge loop whose raw candle is in containment  *)
(* with the last buffered candle replaces that candle by one with the      *)
(* larger high and larger low under UP, the smaller high and smaller low   *)
(* under DOWN, leaving the buffer's length and its other entries           *)
(* unchanged; without containment the raw candle is appended.              *)
(***************************************************************************)
C17_MergeArithmetic ==
    [][pc = "inclusion" =>
          LET last_k == result[Len(result)]
              next_k == raw_klines[i + 1]
              merged_k == result'[Len(result')]
          IN  IF Encloses(last_k, next_k) \/ Encloses(next_k, last_k)
              THEN /\ Len(result') = Len(result)
                   /\ \A k \in 1..(Len(result) - 1) : result'[k] = result[k]
                   /\ CurrentDirection(result) \in {"UP", "DOWN"}
                   /\ CurrentDirection(result) = "UP" =>
                         /\ merged_k.high = Max(last_k.high, next_k.high)
                         /\ merged_k.low = Max(last_k.low, next_k.low)
                   /\ CurrentDirection(result) = "DOWN" =>
                         /\ merged_k.high = Min(last_k.high, next_k.high)
                         /\ merged_k.low = Min(last_k.low, next_k.low)
              ELSE /\ Len(result') = Len(result) + 1
                   /\ result' = Append(result, next_k)]_vars

\* a merge under DOWN has happened: a buffered candle's high is below the
\* high of one of the raw candles it was merged from
C17_Witness ==
    /\ pc \in {"inclusion", "inclusion_done"}
    /\ \E k \in 1..Len(result) :
          \E j \in 1..Len(result[k].original_klines) :
             raw_klines[result[k].original_klines[j] + 1].high > result[k].high

(***************************************************************************)
(* C18: a merge takes max/max (UP) when the last buffered candle's high is *)
(* above its predecessor's or when it has no predecessor, and min/min      *)
(* (DOWN) when it is below; two raw candles in containment give exactly    *)
(* one standard candle, with the larger high and the larger low, built     *)
(* from raw indices 0 and 1.                                               *)
(***************************************************************************)
C18_DirectionRule ==
    [][/\ pc = "inclusion" =>
             LET last_k == result[Len(result)]
                 next_k == raw_klines[i + 1]
                 merged_k == result'[Len(result')]
                 up == /\ merged_k.high = Max(last_k.high, next_k.high)
                       /\ merged_k.low = Max(last_k.low, next_k.low)
                 down == /\ merged_k.high = Min(last_k.high, next_k.high)
                         /\ merged_k.low = Min(last_k.low, next_k.low)
             IN  (Encloses(last_k, next_k) \/ Encloses(next_k, last_k)) =>
                    /\ Len(result) < 2 => up
                    /\ (Len(result) >= 2
                          /\ last_k.high > result[Len(result) - 1].high) => up
                    /\ (Len(result) >= 2
                          /\ last_k.high < result[Len(result) - 1].high) => down
       /\ (/\ pc' = "inclusion_done"
           /\ Len(raw_klines) = 2
           /\ \/ Encloses(raw_klines[1], raw_klines[2])
              \/ Encloses(raw_klines[2], raw_klines[1])) =>
             /\ Len(standard_klines') = 1
             /\ standard_klines'[1].high = Max(raw_klines[1].high, raw_klines[2].high)
             /\ standard_klines'[1].low = Max(raw_klines[1].low, raw_klines[2].low)
             /\ standard_klines'[1].original_klines = <<0, 1>>]_vars

\* the third raw candle was merged under DOWN into the second standard
\* candle, whose high is below the first one's
C18_Witness ==
    /\ pc = "inclusion_done"
    /\ Len(raw_klines) = 3
    /\ Len(standard_klines) = 2
    /\ standard_klines[2].original_klines = <<1, 2>>
    /\ raw_klines[2].high < raw_klines[1].high
    /\ standard_klines[2].high = Min(raw_klines[2].high, raw_klines[3].high)
    /\ standard_klines[2].low = Min(raw_klines[2].low, raw_klines[3].low)
    /\ raw_klines[2] /= raw_klines[3]
    /\ raw_klines[2].high /= raw_klines[3].high \/ raw_klines[2].low /= raw_klines[3].low

\* the direction determined by a strict comparison of highs at the latest
\* merge among the iterations k, ..., stop - 1 of the merge loop (d if none)
RECURSIVE LastDetermined(_, _, _, _, _)
LastDetermined(raw, res, k, stop, d) ==
    IF k < stop
    THEN LET next_k == PyAt(raw, k)
             determined ==
                 /\ IsIncludedFloat(PyAt(res, -1), next_k)
                 /\ Len(res) >= 2
                 /\ PyAt(res, -1).high /= PyAt(res, -2).high
         IN  LastDetermined(raw, MergeStepFloat(res, next_k), k + 1, stop,
                            IF determined THEN CurrentDirection(res) ELSE d)
    ELSE d

\* the iteration about to run merges while the last two buffered candles
\* have equal highs
EqualHighsMerge ==
    /\ pc = "inclusion"
    /\ Len(result) >= 2
    /\ PyAt(result, -1).high = PyAt(result, -2).high
    /\ IsIncludedFloat(PyAt(result, -1), PyAt(raw_klines, i))

C20_SameTypeAdvance ==
    [][(pc = "bi" /\ i < Len(fenxings)
          /\ PyAt(fenxings, i).type = current_bi_start.type) =>
          LET f == PyAt(fenxings, i)
              advance == \/ current_bi_start.type = "TOP"
                            /\ f.high >= current_bi_start.high
                         \/ current_bi_start.type = "BOTTOM"
                            /\ f.low <= current_bi_start.low
          IN  /\ (current_bi_start' = f) <=> advance
              /\ ~advance => /\ current_bi_start' = current_bi_start
                             /\ bis' = bis]_vars

\* the anchor has just advanced on a tie: from the first fractal to the
\* third, of the same type and with the same extreme price
C20_Witness ==
    /\ pc \in {"bi", "done"}
    /\ i = 3
    /\ Len(fenxings) >= 3
    /\ Len(bis) = 0
    /\ current_bi_start = PyAt(fenxings, 2)
    /\ current_bi_start.type = PyAt(fenxings, 0).type
    /\ IF current_bi_start.type = "TOP"
       THEN current_bi_start.high = PyAt(fenxings, 0).high
       ELSE current_bi_start.low = PyAt(fenxings, 0).low

(***************************************************************************)
(* C21: an iteration of the stroke loop that rewrites a stroke rewrites    *)
(* the last one, whose end was the anchor before the iteration, to the     *)
(* stroke from the same start to the fractal scanned, which has the        *)
(* anchor's type and becomes the anchor; a stroke whose end is not the     *)
(* anchor before the iteration is left as it is.                           *)
(***************************************************************************)
C21_RewriteOnlyAtAnchor ==
    [][(pc = "bi" /\ i < Len(fenxings)) =>
          LET f == PyAt(fenxings, i)
          IN  /\ \A k \in 1..Len(bis) :
                    bis[k].end_fx /= current_bi_start => bis'[k] = bis[k]
              /\ \A k \in 1..Len(bis) :
                    bis'[k] /= bis[k] =>
                       /\ k = Len(bis)
                       /\ bis[k].end_fx = current_bi_start
                       /\ f.type = current_bi_start.type
                       /\ current_bi_start' = f
                       /\ bis'[k].start_fx = bis[k].start_fx
                       /\ bis'[k].end_fx = f
              /\ (/\ f.type = current_bi_start.type
                  /\ current_bi_start' = f
                  /\ Len(bis) > 0
                  /\ PyAt(bis, -1).end_fx = current_bi_start) =>
                    bis' = SetLast(bis, Bi(PyAt(bis, -1).start_fx, f))]_vars

\* the only stroke has just been rewritten to end at the new anchor
C21_Witness ==
    /\ pc \in {"bi", "done"}
    /\ Len(bis) = 1
    /\ Rewritten(bis[1])
    /\ bis[1].end_fx = current_bi_start
    /\ current_bi_start = PyAt(fenxings, i - 1)

(***************************************************************************)
(* C22: when the fractal scanned has the other type than the anchor, the   *)
(* stroke anchor -> fractal is appended and the fractal becomes the anchor *)
(* exactly if it lies at least 4 standard indices after the anchor and is  *)
(* strictly below a TOP anchor (strictly above a BOTTOM anchor) in both    *)
(* high and low; otherwise the anchor and the stroke list are unchanged.   *)
(***************************************************************************)
C22_CandidateAcceptance ==
    [][(pc = "bi" /\ i < Len(fenxings)
          /\ PyAt(fenxings, i).type /= current_bi_start.type) =>
          LET f == PyAt(fenxings, i)
              a == current_bi_start
              accept == /\ StdIndex(f) - StdIndex(a) >= 4
                        /\ \/ a.type = "TOP" /\ a.high > f.high /\ a.low > f.low
                           \/ a.type = "BOTTOM" /\ a.low < f.low /\ a.high < f.high
          IN  /\ accept => /\ bis' = Append(bis, Bi(a, f))
                           /\ current_bi_start' = f
              /\ ~accept => /\ bis' = bis
                            /\ current_bi_start' = a]_vars

\* the fractal just scanned was far enough from the anchor but was
\* discarded on its values
C22_Witness ==
    /\ pc \in {"bi", "done"}
    /\ i >= 2
    /\ i <= Len(fenxings)
    /\ LET f == PyAt(fenxings, i - 1)
           a == current_bi_start
       IN  /\ f.type /= a.type
           /\ StdIndex(f) - StdIndex(a) >= 4
           /\ ~ValueCheck(a, f)

(***************************************************************************)
(* C23: every stroke of the final list has direction UP exactly when it    *)
(* runs from a BOTTOM to a TOP fractal and DOWN exactly when it runs from  *)
(* a TOP to a BOTTOM fractal.                                              *)
(***************************************************************************)
C23_DirectionMatchesTypes ==
    pc = "done" =>
        \A k \in 1..Len(bis) :
            /\ bis[k].direction = "UP" <=>
                  (bis[k].start_fx.type = "BOTTOM" /\ bis[k].end_fx.type = "TOP")
            /\ bis[k].direction = "DOWN" <=>
                  (bis[k].start_fx.type = "TOP" /\ bis[k].end_fx.type = "BOTTOM")

\* sum of the volumes of a sequence of K-lines
RECURSIVE TotalVolume(_)
TotalVolume(s) ==
    IF Len(s) = 0 THEN 0
    ELSE TotalVolume(SubSeq(s, 1, Len(s) - 1)) + s[Len(s)].volume

\* the raw K-lines a standard K-line was built from
Originals(c) ==
    [j \in 1..Len(c.original_klines) |-> raw_klines[c.original_klines[j] + 1]]

(***************************************************************************)
(* C24: every standard K-line has the close, index and timestamp of the    *)
(* last raw K-line it was built from, the open of the first one and the    *)
(* sum of their volumes; the total volume of the standard sequence is that *)
(* of the raw sequence.                                                    *)
(***************************************************************************)
C24_FieldProvenance ==
    AfterInclusion =>
        /\ \A k \in 1..Len(standard_klines) :
              LET c == standard_klines[k]
                  o == Originals(c)
              IN  /\ Len(o) >= 1
                  /\ c.close = o[Len(o)].close
                  /\ c.index = o[Len(o)].index
                  /\ c.datetime = o[Len(o)].datetime
                  /\ c.open = o[1].open
                  /\ c.volume = TotalVolume(o)
        /\ TotalVolume(standard_klines) = TotalVolume(raw_klines)

\* a standard K-line built from three raw K-lines stands beside another one
C24_Witness ==
    /\ pc = "inclusion_done"
    /\ Len(standard_klines) = 2
    /\ \E k \in 1..2 : Len(standard_klines[k].original_klines) = 3

(***************************************************************************)
(* C25: at every iteration of the merge loop with at least two buffered    *)
(* candles, in particular at every merge, the last buffered candle and its *)
(* predecessor have different highs: one is strictly above the other in    *)
(* both high and low (bars with numeric prices).                           *)
(***************************************************************************)
C25_NoEqualHighs ==
    (pc = "inclusion" /\ Len(result) >= 2) =>
        LET last_k == PyAt(result, -1)
            prev_k == PyAt(result, -2)
        IN  /\ last_k.high /= prev_k.high
            /\ StrictlyAbove(last_k, prev_k) \/ StrictlyAbove(prev_k, last_k)

\* a merge has been made while two candles were buffered
C25_Witness ==
    /\ pc \in {"inclusion", "inclusion_done"}
    /\ Len(result) >= 2
    /\ Len(PyAt(result, -1).original_klines) >= 2
    /\ PyAt(result, -1).original_klines[1] >= 1

(***************************************************************************)
(* C26: consecutive fractals of the list have different types; so when the *)
(* stroke loop scans a fractal of the anchor's type, the fractal before it *)
(* has the other type and was discarded (it is not the anchor and no       *)
(* stroke ends at it).                                                     *)
(***************************************************************************)
C26_FractalsAlternate ==
    /\ \A k \in 1..(Len(fenxings) - 1) : fenxings[k].type /= fenxings[k + 1].type
    /\ (pc = "bi" /\ i < Len(fenxings)
          /\ PyAt(fenxings, i).type = current_bi_start.type) =>
          /\ i >= 2
          /\ PyAt(fenxings, i - 1).type /= current_bi_start.type
          /\ \A k \in 1..Len(bis) : bis[k].end_fx /= PyAt(fenxings, i - 1)

\* the stroke loop is about to scan a fractal of the anchor's type, on
\* standard K-lines that come from a merge
C26_Witness ==
    /\ pc = "bi"
    /\ i < Len(fenxings)
    /\ PyAt(fenxings, i).type = current_bi_start.type
    /\ Len(standard_klines) < Len(raw_klines)
    /\ Len(fenxings) >= 4

(***************************************************************************)
(* C27: while draw_bi runs and after it has returned, if the stroke list   *)
(* is not empty the anchor is the end fractal of the last stroke.          *)
(***************************************************************************)
C27_AnchorIsLastEnd ==
    (pc \in {"bi", "done"} /\ Len(bis) > 0) =>
        current_bi_start = PyAt(bis, -1).end_fx

\* the last stroke was rewritten by an extension and a later fractal was
\* discarded
C27_Witness ==
    /\ pc \in {"bi", "done"}
    /\ Len(bis) > 0
    /\ Rewritten(PyAt(bis, -1))
    /\ i >= 1
    /\ PyAt(fenxings, i - 1) /= current_bi_start

(***************************************************************************)
(* C28: (all raw K-lines have low <= high) every buffered and every        *)
(* standard K-line has low <= high, and at each merge the merged interval  *)
(* encloses the inner candle's interval and is enclosed by the outer       *)
(* candle's.                                                               *)
(***************************************************************************)
C28_MergedInterval ==
    [][/\ \A k \in 1..Len(raw_klines') : raw_klines'[k].low <= raw_klines'[k].high
       /\ \A k \in 1..Len(result') : result'[k].low <= result'[k].high
       /\ \A k \in 1..Len(standard_klines') :
             standard_klines'[k].low <= standard_klines'[k].high
       /\ pc = "inclusion" =>
             LET last_k == PyAt(result, -1)
                 next_k == PyAt(raw_klines, i)
                 merged_k == PyAt(result', -1)
             IN  /\ Encloses(last_k, next_k) =>
                       Encloses(merged_k, next_k) /\ Encloses(last_k, merged_k)
                 /\ Encloses(next_k, last_k) =>
                       Encloses(merged_k, last_k) /\ Encloses(next_k, merged_k)]_vars

\* a standard K-line merged from two raw K-lines has an interval that is
\* neither the inner nor the outer one
C28_Witness ==
    /\ pc = "inclusion_done"
    /\ \E k \in 1..Len(standard_klines) :
          LET c == standard_klines[k]
              o == Originals(c)
          IN  /\ Len(o) = 2
              /\ \A j \in 1..2 : c.low /= o[j].low \/ c.high /= o[j].high

\* 0-based position of a fractal in fenxings
FxPos(fx) == CHOOSE p \in 0..(Len(fenxings) - 1) : PyAt(fenxings, p) = fx

\* 0-based position of the fractal at which the anchor took its present
\* type: the first fractal, or the fractal that ended the last stroke when
\* the stroke was emitted (the first acceptable candidate after its start)
TypeSince ==
    IF Len(bis) = 0 THEN 0
    ELSE LET s == PyAt(bis, -1).start_fx
             acceptable(p) ==
                 LET f == PyAt(fenxings, p)
                 IN  /\ f.type /= s.type
                     /\ StdIndex(f) - StdIndex(s) >= 4
                     /\ IF s.type = "TOP" THEN StrictlyAbove(s, f)
                                          ELSE StrictlyAbove(f, s)
         IN  CHOOSE p \in (FxPos(s) + 1)..(Len(fenxings) - 1) :
                /\ acceptable(p)
                /\ \A q \in (FxPos(s) + 1)..(p - 1) : ~acceptable(q)

\* fractal a is at least as extreme as fractal f of the same type
AsExtreme(a, f) ==
    IF a.type = "TOP" THEN a.high >= f.high ELSE a.low <= f.low

(***************************************************************************)
(* C29: while draw_bi runs and after it has returned, the anchor is at     *)
(* least as extreme as every fractal of its type scanned since it took     *)
(* that type (since the last stroke was emitted, or since the first        *)
(* fractal); so is the end of the last stroke.                             *)
(***************************************************************************)
C29_AnchorMostExtreme ==
    (pc \in {"bi", "done"} /\ Len(fenxings) >= 1) =>
        \A p \in TypeSince..(i - 1) :
            LET f == PyAt(fenxings, p)
            IN  f.type = current_bi_start.type =>
                   /\ AsExtreme(current_bi_start, f)
                   /\ Len(bis) > 0 => AsExtreme(PyAt(bis, -1).end_fx, f)

\* after a stroke, the anchor stayed where it was when a less extreme
\* fractal of its type was scanned
C29_Witness ==
    /\ pc \in {"bi", "done"}
    /\ Len(bis) >= 1
    /\ \E p \in (TypeSince + 1)..(i - 1) :
          /\ PyAt(fenxings, p).type = current_bi_start.type
          /\ ~AsExtreme(PyAt(fenxings, p), current_bi_start)

====
